---- MODULE Spec2Model ----
(***************************************************************************)
(* Model of chub's playback engine (player/playingthread.go): the          *)
(* playingThread control loop, its command channel, the buffer-availability*)
(* checker goroutine and the clients of Close().                           *)
(*                                                                         *)
(* Time and buffer space are counted in the same unit: one unit of PCM     *)
(* data is one unit of decoder time.  List indices are 0-based as in Go.   *)
(***************************************************************************)
EXTENDS Integers, Sequences, FiniteSets, TLC

\* ------------------------------------------------------------------ bounds
\* Capacity of the Output's buffer, in units.
BufCap == 1
\* Saturation value of the counters (leaked monitors, scenario call counts).
MaxCount == 2
\* Play(list, pos) is tried with pos from -PosSpan to PosSpan - 1 past the
\* longest list.
PosSpan == 2

\* ------------------------------------------------------------ input tracks
NoTrack == "-"

\* Track objects (by identity).  B2 is a second object with B's value.
TrackIds == {"A", "B", "B2", "P", "C", "X", "Y"}

\* Track.Path.File()
TrackFile(t) ==
    CASE t \in {"A", "B", "B2", "P"} -> "a.mp3"
      [] t = "C" -> "c.mp3"
      [] t = "X" -> "x.xyz"
      [] OTHER -> "bad.mp3"

\* Track.Part
TrackPart(t) == t \in {"B", "B2", "P"}

\* Track.Start
TrackStart(t) ==
    CASE t \in {"B", "B2"} -> 2
      [] t = "P" -> 1
      [] OTHER -> 0

\* Track.End
TrackEnd(t) ==
    CASE t \in {"A", "P"} -> 2
      [] t \in {"B", "B2"} -> 3
      [] OTHER -> 1

\* Length of the audio stream of a file, in units.
FileLen(f) == IF f = "a.mp3" THEN 3 ELSE 1

\* Sample rate / channel count of a file's stream (one number for the pair).
FileFormat(f) == IF f = "a.mp3" THEN 1 ELSE 2

\* pt.decoders[track.Path.Ext()] != nil
HasDecoderFactory(f) == f # "x.xyz"

\* decoder.Open(file) succeeds
OpenSucceeds(f) == f # "bad.mp3"

\* The track lists clients hand to the engine.
ListABC == <<"A", "B", "C">>

Playlists ==
    { ListABC,
      <<"P", "B", "C">>,
      <<"B2", "C", "B">>,
      <<"C", "X">>,
      <<"A">>,
      <<"Y">>,
      << >> }

\* The pos arguments of Play: from below -1 to beyond the longest list.
PosArgs == (0 - PosSpan) .. (Len(ListABC) + PosSpan - 1)

\* ------------------------------------------------------------- data values
NilList == [nil |-> TRUE, tracks |-> << >>]

ListOf(l) == [nil |-> FALSE, tracks |-> l]

NilDecoder == [nil |-> TRUE, file |-> "", time |-> 0, closed |-> FALSE]

NoTrans ==
    [active |-> FALSE, req |-> 0, n |-> 0, smooth |-> FALSE, st0 |-> "Stopped",
     from |-> NoTrack, to |-> NoTrack, committed |-> FALSE]

NoCont == [op |-> "", pos |-> 0, smooth |-> FALSE]

NoCmd ==
    [cmd |-> "", st0 |-> "Stopped", track0 |-> NoTrack, dec0 |-> NilDecoder,
     list |-> NilList]

NoScen == [mode |-> "off", seeks |-> 0, resets |-> 0]

NoPz == [n |-> 0, pos |-> 0, plist |-> NilList, decoder |-> NilDecoder, calls1 |-> << >>]

Min(a, b) == IF a < b THEN a ELSE b

Sat(n) == Min(n + 1, MaxCount)

VARIABLES
    state,      \* pt.state: "Stopped", "Playing", "Paused"
    pos,        \* pt.pos
    plist,      \* pt.plist (NilList or a list)
    decoder,    \* pt.decoder (NilDecoder or the decoder object it points to)
    out,        \* pt.output: the Output device
    chan,       \* pt.bufAvailable: "nil", "open" or "closed"
    mon,        \* the checker goroutine: "none", "wait", "sleep", "select"
    stale,      \* checker goroutines left behind on a replaced channel
    pc,         \* loop(): "select", "hs" (blocked in stopBufAvailableChecker),
                \*         "tick" (before the decode step), "done", "panic"
    phase,      \* part of the loop body being run: "cmd" or "tick"
    cont,       \* what remains to run once the handshake is through
    quit,       \* loop()'s quit
    msgClosed,  \* close(pt.msgChan) has run
    closer,     \* the caller of Close(): "none", "waiting", "returned"
    fault,      \* "none" or the panic that killed the process
    calls,      \* log of the calls made by the handler in progress / last completed
    trans,      \* the play() invocation of that handler
    cur,        \* the command of the current loop iteration
    pz,         \* record of a run of consecutive Pause commands
    scen,       \* record of the run Play(ListABC, 0) + natural advances
    playlists,  \* Player.playlists: the playlists in creation order
    playingChan,    \* Player.playingChan: the commands enqueued, oldest first
    responseChan,   \* per client, the responseChan of its call in progress
    call,       \* per client, where its Command() call stands
    ret,        \* per client, what its last Command() call returned
    last,       \* the command playingProcess handled last, and its outcome
    pfault      \* "none" or the panic that killed playingProcess

\* The variables of the playing thread.
tvars ==
    <<state, pos, plist, decoder, out, chan, mon, stale, pc, phase, cont, quit,
      msgClosed, closer, fault, calls, trans, cur, pz, scen>>

\* The variables of the Player facade.
pvars == <<playlists, playingChan, responseChan, call, ret, last, pfault>>

vars == <<tvars, pvars>>


\* ------------------------------------------------- the engine as one record
\* The engine's variables gathered in a record, so that the straight-line code
\* of a handler can be written as a chain of updates.  pc = "run" while the
\* handler is running.
World ==
    [state |-> state, pos |-> pos, plist |-> plist, decoder |-> decoder,
     out |-> out, chan |-> chan, mon |-> mon, stale |-> stale, pc |-> "run",
     phase |-> phase, cont |-> cont, quit |-> quit, msgClosed |-> msgClosed,
     fault |-> fault, calls |-> calls, trans |-> trans, scen |-> scen]

Commit(w) ==
    /\ state' = w.state
    /\ pos' = w.pos
    /\ plist' = w.plist
    /\ decoder' = w.decoder
    /\ out' = w.out
    /\ chan' = w.chan
    /\ mon' = w.mon
    /\ stale' = w.stale
    /\ pc' = w.pc
    /\ phase' = w.phase
    /\ cont' = w.cont
    /\ quit' = w.quit
    /\ msgClosed' = w.msgClosed
    /\ fault' = w.fault
    /\ calls' = w.calls
    /\ trans' = w.trans
    /\ scen' = w.scen
    /\ UNCHANGED pvars

\* The world at the start of a part of the loop body: empty call log.
Fresh(ph) ==
    [World EXCEPT !.phase = ph, !.calls = << >>, !.trans = NoTrans]

\* A call on a collaborator (Decoder, Output, checker), appended to the log.
Call(w, op, file, at) ==
    [w EXCEPT
       !.calls = Append(@, [op |-> op, file |-> file, at |-> at]),
       !.scen.seeks = IF w.scen.mode = "on" /\ op = "Decoder.Seek" THEN Sat(@) ELSE @,
       !.scen.resets = IF w.scen.mode = "on" /\ op = "Output.Reset" THEN Sat(@) ELSE @]

\* A mark in the log that is not a call: the assignment of pt.pos in play().
Mark(w, what, at) ==
    [w EXCEPT !.calls = Append(@, [op |-> what, file |-> "", at |-> at])]

\* A Go panic: it ends the process.
Panic(w, why) == [w EXCEPT !.pc = "panic", !.fault = why]

\* Tracks.Len() and Tracks.Get(i); a nil list or an index out of range panics.
InRange(l, i) == ~l.nil /\ i >= 0 /\ i < Len(l.tracks)

Get(l, i) == l.tracks[i + 1]

CurTrack(w) == IF InRange(w.plist, w.pos) THEN Get(w.plist, w.pos) ELSE NoTrack

\* ------------------------------------------------------ Output and Decoder
OutputOpen(w) ==
    [Call(w, "Output.Open", "", 0) EXCEPT
       !.out.open = TRUE, !.out.paused = FALSE, !.out.free = BufCap]

OutputClose(w) == [Call(w, "Output.Close", "", 0) EXCEPT !.out.open = FALSE]

OutputReset(w) == [Call(w, "Output.Reset", "", 0) EXCEPT !.out.free = BufCap]

OutputPause(w) == [Call(w, "Output.Pause", "", 0) EXCEPT !.out.paused = ~@]

OutputSetFormat(w, f) ==
    [Call(Call(w, "Output.SetSampleRate", "", f), "Output.SetChannels", "", f)
       EXCEPT !.out.fmt = f]

OutputWrite(w, n) == [Call(w, "Output.Write", "", n) EXCEPT !.out.free = @ - n]

DecoderClose(w) ==
    IF w.decoder.nil THEN Panic(w, "nil dereference")
    ELSE [Call(w, "Decoder.Close", w.decoder.file, 0) EXCEPT !.decoder.closed = TRUE]

DecoderSeek(w, t) ==
    [Call(w, "Decoder.Seek", w.decoder.file, t) EXCEPT !.decoder.time = t]

\* Decoder.Read(buf) with len(buf) = size: the number of units read.
DecoderRead(d, size) ==
    IF d.time >= FileLen(d.file) THEN 0 ELSE Min(size, FileLen(d.file) - d.time)

\* ----------------------------------------------------- checker start / stop
startBufAvailableChecker(w) ==
    [Call(w, "Monitor.Start", "", 0) EXCEPT
       !.chan = "open",
       !.stale = IF w.mon # "none" THEN Sat(@) ELSE @,
       !.mon = "wait"]

\* pt.bufAvailable <- struct{}{}: blocks until the checker receives; k is the
\* code that follows.  A send on a closed channel panics.
stopBufAvailableChecker(w, k) ==
    IF w.chan = "closed" THEN Panic(w, "send on closed channel")
    ELSE [w EXCEPT !.pc = "hs", !.cont = k]

stopBufAvailableCheckerNoReturn(w) ==
    [Call(w, "Monitor.Stop", "", 0) EXCEPT
       !.chan = "closed", !.cont = NoCont, !.pc = "run"]

\* The rest of stopBufAvailableChecker, once the checker has received.
stopBufAvailableCheckerRest(w) ==
    [Call(w, "Monitor.Stop", "", 0) EXCEPT
       !.mon = "none", !.chan = "closed", !.cont = NoCont, !.pc = "run"]

\* ---------------------------------------------------------------- handlers
WrapPosModulo(p, n) == IF n > 0 THEN p % n ELSE -1

\* play(): the wrap of pos to the list.
WrapPos(p, n) == IF p < 0 THEN n - 1 ELSE IF p >= n THEN 0 ELSE p

NeedsResetAlways(smooth) == TRUE

\* play(): no reset of the Output on a smooth transition.
NeedsReset(smooth) == ~smooth

NeedsSeekAnyPart(track, sameFile, upcoming) == TrackPart(track)

\* play(): a Part track is sought to its Start unless it just follows.
NeedsSeek(track, sameFile, upcoming) ==
    TrackPart(track) /\ (~sameFile \/ ~upcoming)

ClosesOldDecoderNever(st) == FALSE

\* play(): the decoder is closed before it is replaced only when Playing.
ClosesOldDecoder(st) == st = "Playing"

\* play(), lines 207-229: replace the decoder by one opened on track's file.
openDecoder(w, track) ==
    LET f == TrackFile(track)
        w1 == IF ClosesOldDecoder(w.state) THEN DecoderClose(w) ELSE w
    IN  IF w1.pc = "panic" THEN w1
        ELSE IF ~HasDecoderFactory(f)
        THEN LET w2 == DecoderClose(w1)
             IN  IF w2.pc = "panic" THEN w2
                 ELSE Panic([w2 EXCEPT !.state = "Stopped"], "TODO:")
        ELSE IF ~OpenSucceeds(f)
        THEN LET w2 == DecoderClose(Call(w1, "Decoder.Open", f, 0))
             IN  IF w2.pc = "panic" THEN w2
                 ELSE Panic([w2 EXCEPT !.state = "Stopped"], "TODO:")
        ELSE [Call(w1, "Decoder.Open", f, 0) EXCEPT
                !.decoder = [nil |-> FALSE, file |-> f, time |-> 0, closed |-> FALSE]]

\* play(), lines 195-254: what follows the stop of the checker.
playRest(w, q, smooth) ==
    IF ~InRange(w.plist, q) THEN Panic(w, "index out of range")
    ELSE IF w.state = "Playing" /\ ~InRange(w.plist, w.pos)
    THEN Panic(w, "index out of range")
    ELSE
    LET track == Get(w.plist, q)
        playing == w.state = "Playing"
        sameFile == playing /\ TrackFile(Get(w.plist, w.pos)) = TrackFile(track)
        upcoming == playing /\ TrackEnd(Get(w.plist, w.pos)) = TrackStart(track)
        w2 == IF sameFile THEN w ELSE openDecoder(w, track)
    IN  IF w2.pc = "panic" THEN w2
        ELSE
        LET w3 == IF NeedsSeek(track, sameFile, upcoming)
                  THEN DecoderSeek(w2, TrackStart(track)) ELSE w2
            w4 == IF ~w3.out.open THEN OutputOpen(w3) ELSE w3
            w5 == IF NeedsReset(smooth) THEN OutputReset(w4) ELSE w4
            w6 == IF w5.out.fmt # FileFormat(w5.decoder.file)
                  THEN OutputSetFormat(w5, FileFormat(w5.decoder.file)) ELSE w5
            w7 == [Mark(w6, "commit", q) EXCEPT
                     !.pos = q, !.state = "Playing", !.trans.committed = TRUE]
        IN  startBufAvailableChecker(w7)

\* play(), lines 185-193.
play(w, p, smooth) ==
    IF w.plist.nil THEN Panic(w, "nil dereference")
    ELSE
    LET n == Len(w.plist.tracks)
        q == WrapPos(p, n)
        w1 == [w EXCEPT !.trans =
                 [active |-> TRUE, req |-> p, n |-> n, smooth |-> smooth,
                  st0 |-> w.state, from |-> CurTrack(w),
                  to |-> IF InRange(w.plist, q) THEN Get(w.plist, q) ELSE NoTrack,
                  committed |-> FALSE]]
    IN  IF w.state # "Stopped"
        THEN stopBufAvailableChecker(w1, [op |-> "play", pos |-> q, smooth |-> smooth])
        ELSE playRest(w1, q, smooth)

stopRestKeepsOutput(w) ==
    LET w1 == DecoderClose(w)
    IN  IF w1.pc = "panic" THEN w1
        ELSE [w1 EXCEPT !.plist = NilList, !.pos = -1, !.state = "Stopped"]

\* stop(), lines 260-264.
stopRest(w) ==
    LET w1 == DecoderClose(OutputClose(w))
    IN  IF w1.pc = "panic" THEN w1
        ELSE [w1 EXCEPT !.plist = NilList, !.pos = -1, !.state = "Stopped"]

stop(w) ==
    IF w.state # "Stopped"
    THEN stopBufAvailableChecker(w, [op |-> "stop", pos |-> 0, smooth |-> FALSE])
    ELSE w

SameValue(t, u) ==
    /\ TrackFile(t) = TrackFile(u)
    /\ TrackPart(t) = TrackPart(u)
    /\ TrackStart(t) = TrackStart(u)
    /\ TrackEnd(t) = TrackEnd(u)

IndexOfByValue(l, t) ==
    IF \E i \in 1..Len(l) : SameValue(l[i], t)
    THEN (CHOOSE i \in 1..Len(l) :
            SameValue(l[i], t) /\ \A j \in 1..(i - 1) : ~SameValue(l[j], t)) - 1
    ELSE -1

\* setPlaylist(): the index of the object cur in the new list, or -1.
IndexOf(l, t) ==
    IF \E i \in 1..Len(l) : l[i] = t
    THEN (CHOOSE i \in 1..Len(l) : l[i] = t /\ \A j \in 1..(i - 1) : l[j] # t) - 1
    ELSE -1

setPlaylist(w, l) ==
    IF w.state # "Stopped"
    THEN IF ~InRange(w.plist, w.pos) THEN Panic(w, "index out of range")
         ELSE [w EXCEPT !.pos = IndexOf(l, Get(w.plist, w.pos)), !.plist = ListOf(l)]
    ELSE [w EXCEPT !.plist = ListOf(l)]

\* loop(), case cmdPause, after the stop of the checker.
pauseRest(w) == [OutputPause(w) EXCEPT !.state = "Paused"]

pauseNoRestart(w) ==
    IF w.state = "Playing"
    THEN stopBufAvailableChecker(w, [op |-> "pause", pos |-> 0, smooth |-> FALSE])
    ELSE IF w.state = "Paused"
    THEN [OutputPause(w) EXCEPT !.state = "Playing"]
    ELSE w

pausePausesFirst(w) ==
    IF w.state = "Playing"
    THEN stopBufAvailableChecker(OutputPause(w),
                                 [op |-> "pause", pos |-> 0, smooth |-> FALSE])
    ELSE IF w.state = "Paused"
    THEN [OutputPause(startBufAvailableChecker(w)) EXCEPT !.state = "Playing"]
    ELSE w

\* loop(), case cmdPause.
pause(w) ==
    IF w.state = "Playing"
    THEN stopBufAvailableChecker(w, [op |-> "pause", pos |-> 0, smooth |-> FALSE])
    ELSE IF w.state = "Paused"
    THEN [OutputPause(startBufAvailableChecker(w)) EXCEPT !.state = "Playing"]
    ELSE w

\* loop(), lines 156-179: the decode/write step.
step(w) ==
    IF w.state # "Playing" THEN w
    ELSE IF ~InRange(w.plist, w.pos) THEN Panic(w, "index out of range")
    ELSE
    LET size == w.out.free
        c == Get(w.plist, w.pos)
        canRead == ~TrackPart(c) \/ w.decoder.time < TrackEnd(c)
        read == IF canRead THEN DecoderRead(w.decoder, size) ELSE 0
        w1 == IF canRead
              THEN [Call(w, "Decoder.Read", w.decoder.file, read)
                      EXCEPT !.decoder.time = @ + read]
              ELSE w
    IN  IF read = 0 THEN play(w1, w.pos + 1, TRUE)
        ELSE OutputWrite(w1, read)

\* Where loop() goes once a part of its body has run to its end.
Finish(w) ==
    IF w.pc # "run" THEN w
    ELSE IF w.phase = "cmd" THEN [w EXCEPT !.pc = "tick"]
    ELSE IF w.quit THEN [w EXCEPT !.pc = "done", !.msgClosed = TRUE]
    ELSE [w EXCEPT !.pc = "select"]

\* ------------------------------------------------------------ Player facade
\* Number of client tasks calling Player.Command, and of commands they issue.
NumClients == 2
MaxCmds == 3

\* Capacity of Player.playingChan.
ChanCap == 10

Clients == 1 .. NumClients

\* Playlist names: the system playlist's and the names clients use.
SystemName == "*vfs*"
Names == {SystemName, "p", "q"}

\* A command sent without the argument its code reads.
NoArg == "<none>"

\* The commands clients send: code and first argument.
Commands ==
    {[code |-> "CMD_PLAYLISTS_LIST", arg |-> NoArg], [code |-> "CMD_OTHER", arg |-> NoArg]}
        \cup [code : {"CMD_PLAYLISTS_ADD", "CMD_PLAYLISTS_DELETE"}, arg : Names \cup {NoArg}]

\* nil error, and no result.
NoErr == ""
NilArguments == << >>

newPlaylist(name) == [Name |-> name, system |-> FALSE]
SystemPlaylist == [Name |-> SystemName, system |-> TRUE]

\* The registries the Player starts serving with: the system playlist, alone
\* or created after a user playlist.
Registries == {<<SystemPlaylist>>, <<newPlaylist("p"), SystemPlaylist>>}

NoResp == [err |-> NoErr, arguments |-> NilArguments, ticket |-> 0]
NoLast ==
    [ticket |-> 0, code |-> "", arg |-> NoArg, client |-> 0,
     before |-> << >>, err |-> NoErr]

\* The names of the playlists of a registry.
NamesOf(reg) == {reg[i].Name : i \in DOMAIN reg}

\* A sequence without its i-th element.
Remove(reg, i) == [j \in 1 .. (Len(reg) - 1) |-> IF j < i THEN reg[j] ELSE reg[j + 1]]

getPlaylistByName(reg, name) == \E i \in DOMAIN reg : reg[i].Name = name

cmdPlaylistsList(reg) == reg

cmdPlaylistsAdd(reg, name) ==
    IF getPlaylistByName(reg, name)
    THEN [reg |-> reg, err |-> "Playlist already exists."]
    ELSE [reg |-> Append(reg, newPlaylist(name)), err |-> NoErr]

\* cmdPlaylistsDelete, line 127: the element met stops the deletion.
ProtectedNever(pl) == FALSE
Protected(pl) == pl.system

\* cmdPlaylistsDelete: the loop, from element i on.
RECURSIVE DeleteFrom(_, _, _)
DeleteFrom(reg, name, i) ==
    IF i > Len(reg) THEN [reg |-> reg, err |-> NoErr]
    ELSE IF Protected(reg[i])
    THEN [reg |-> reg, err |-> "System playlist can't be deleted"]
    ELSE IF reg[i].Name = name THEN [reg |-> Remove(reg, i), err |-> NoErr]
    ELSE DeleteFrom(reg, name, i + 1)

cmdPlaylistsDelete(reg, name) == DeleteFrom(reg, name, 1)

\* New() and Run(), serving registry reg.
New(reg) ==
    /\ playlists = reg
    /\ playingChan = << >>
    /\ responseChan = [c \in Clients |-> << >>]
    /\ call = [c \in Clients |-> [pc |-> "idle", ticket |-> 0]]
    /\ ret = [c \in Clients |-> NoResp]
    /\ last = NoLast
    /\ pfault = "none"

\* ------------------------------------------------------------------ actions
\* The playing thread after newPlayingThread() and Start().
ThreadInit ==
    /\ state = "Stopped"
    /\ pos = -1
    /\ plist = NilList
    /\ decoder = NilDecoder
    /\ out = [open |-> FALSE, paused |-> FALSE, free |-> BufCap, fmt |-> 0]
    /\ chan = "nil"
    /\ mon = "none"
    /\ stale = 0
    /\ pc = "select"
    /\ phase = "cmd"
    /\ cont = NoCont
    /\ quit = FALSE
    /\ msgClosed = FALSE
    /\ closer = "none"
    /\ fault = "none"
    /\ calls = << >>
    /\ trans = NoTrans
    /\ cur = NoCmd
    /\ pz = NoPz
    /\ scen = [NoScen EXCEPT !.mode = "fresh"]

\* The daemon started: the playing thread, and the Player serving the system
\* playlist.
Init == ThreadInit /\ New(<<SystemPlaylist>>)

\* loop() is blocked in its select and a client's send can be received.
CanRecv == pc = "select" /\ fault = "none" /\ ~msgClosed

\* The world when the command named name is received.
Begin(name, l, p) ==
    [Fresh("cmd") EXCEPT !.scen =
       IF scen.mode = "fresh" /\ name = "Play" /\ l = ListOf(ListABC) /\ p = 0
       THEN [NoScen EXCEPT !.mode = "on"] ELSE NoScen]

PzNext(name) ==
    IF name = "Pause" /\ state = "Playing"
    THEN [n |-> 1, pos |-> pos, plist |-> plist, decoder |-> decoder, calls1 |-> << >>]
    ELSE IF name = "Pause" /\ state = "Paused" /\ pz.n = 1
    THEN [pz EXCEPT !.n = 2]
    ELSE NoPz

Dispatch(name, l, w) ==
    /\ Commit(Finish(w))
    /\ cur' = [cmd |-> name, st0 |-> state, track0 |-> CurTrack(World),
               dec0 |-> decoder, list |-> l]
    /\ pz' = PzNext(name)
    /\ closer' = IF name = "Close" THEN "waiting" ELSE closer

\* loop(), case cmdPlist.
CmdPlist(l) ==
    /\ CanRecv
    /\ LET w1 == setPlaylist(Begin("SetPlaylist", ListOf(l), 0), l)
           w2 == IF w1.pc = "panic" THEN w1
                 ELSE IF w1.pos = -1 THEN stop(w1) ELSE w1
       IN  Dispatch("SetPlaylist", ListOf(l), w2)

\* loop(), case cmdPlay.
CmdPlay(l, p) ==
    /\ CanRecv
    /\ LET w1 == setPlaylist(Begin("Play", ListOf(l), p), l)
           w2 == IF w1.pc = "panic" THEN w1 ELSE play(w1, p, FALSE)
       IN  Dispatch("Play", ListOf(l), w2)

\* loop(), case cmdClose (falls through to cmdStop).
CmdClose ==
    /\ CanRecv
    /\ Dispatch("Close", NilList, stop([Begin("Close", NilList, 0) EXCEPT !.quit = TRUE]))

\* loop(), case cmdStop.
CmdStop ==
    /\ CanRecv
    /\ Dispatch("Stop", NilList, stop(Begin("Stop", NilList, 0)))

\* loop(), case cmdPause.
CmdPause ==
    /\ CanRecv
    /\ Dispatch("Pause", NilList, pause(Begin("Pause", NilList, 0)))

\* loop(), case cmdNext.
CmdNext ==
    /\ CanRecv
    /\ Dispatch("Next", NilList, play(Begin("Next", NilList, 0), pos + 1, FALSE))

\* loop(), case cmdPrev.
CmdPrev ==
    /\ CanRecv
    /\ Dispatch("Prev", NilList, play(Begin("Prev", NilList, 0), pos - 1, FALSE))

\* The checker receives the engine's send: stopBufAvailableChecker returns and
\* the handler that called it runs on.
Handshake ==
    /\ pc = "hs"
    /\ fault = "none"
    /\ mon = "select"
    /\ LET w0 == stopBufAvailableCheckerRest(World)
           w1 == CASE cont.op = "pause" -> pauseRest(w0)
                   [] cont.op = "stop" -> stopRest(w0)
                   [] OTHER -> playRest(w0, cont.pos, cont.smooth)
       IN  /\ Commit(Finish(w1))
           /\ pz' = IF cont.op = "pause" THEN [pz EXCEPT !.calls1 = w1.calls] ELSE pz
    /\ UNCHANGED <<cur, closer>>

\* loop(), the decode/write step that ends every iteration.
Tick ==
    /\ pc = "tick"
    /\ fault = "none"
    /\ Commit(Finish(step(Fresh("tick"))))
    /\ UNCHANGED <<cur, pz, closer>>

\* loop(), case <-pt.bufAvailable, the checker sending.
RecvSignal ==
    /\ pc = "select"
    /\ fault = "none"
    /\ chan = "open"
    /\ mon = "select"
    /\ Commit([Fresh("cmd") EXCEPT !.mon = "wait", !.pc = "tick"])
    /\ cur' = NoCmd
    /\ UNCHANGED <<pz, closer>>

\* loop(), case <-pt.bufAvailable on a closed channel: it never blocks.
RecvClosed ==
    /\ pc = "select"
    /\ fault = "none"
    /\ chan = "closed"
    /\ Commit([Fresh("cmd") EXCEPT !.pc = "tick"])
    /\ cur' = NoCmd
    /\ UNCHANGED <<pz, closer>>

\* bufAvailableChecker: output.Wait(100) reports free space.
MonWait ==
    /\ fault = "none"
    /\ mon = "wait"
    /\ out.open
    /\ out.free > 0
    /\ mon' = "select"
    /\ UNCHANGED <<state, pos, plist, decoder, out, chan, stale, pc, phase, cont,
                   quit, msgClosed, closer, fault, calls, trans, cur, pz, scen>>
    /\ UNCHANGED pvars

\* bufAvailableChecker: output.Wait(100) fails; the checker goes to sleep.
MonWaitFails ==
    /\ fault = "none"
    /\ mon = "wait"
    /\ out.open
    /\ mon' = "sleep"
    /\ UNCHANGED <<state, pos, plist, decoder, out, chan, stale, pc, phase, cont,
                   quit, msgClosed, closer, fault, calls, trans, cur, pz, scen>>
    /\ UNCHANGED pvars

\* bufAvailableChecker: time.Sleep is over, the checker calls output.Wait again.
MonSleep ==
    /\ fault = "none"
    /\ mon = "sleep"
    /\ mon' = "wait"
    /\ UNCHANGED <<state, pos, plist, decoder, out, chan, stale, pc, phase, cont,
                   quit, msgClosed, closer, fault, calls, trans, cur, pz, scen>>
    /\ UNCHANGED pvars

\* The sound device plays one unit of its buffer.
Drain ==
    /\ fault = "none"
    /\ out.open
    /\ ~out.paused
    /\ out.free < BufCap
    /\ out' = [out EXCEPT !.free = @ + 1]
    /\ UNCHANGED <<state, pos, plist, decoder, chan, mon, stale, pc, phase, cont,
                   quit, msgClosed, closer, fault, calls, trans, cur, pz, scen>>
    /\ UNCHANGED pvars

\* Close(): <-pt.msgChan returns because loop() closed the channel.
CloseReturn ==
    /\ fault = "none"
    /\ closer = "waiting"
    /\ msgClosed
    /\ closer' = "returned"
    /\ UNCHANGED <<state, pos, plist, decoder, out, chan, mon, stale, pc, phase,
                   cont, quit, msgClosed, fault, calls, trans, cur, pz, scen>>
    /\ UNCHANGED pvars

\* Close(): <-pt.msgChan receives the message another client is sending with
\* Play, Pause, Next, Prev, Stop or SetPlaylist.
CloseSteal ==
    /\ fault = "none"
    /\ closer = "waiting"
    /\ ~msgClosed
    /\ closer' = "returned"
    /\ UNCHANGED <<state, pos, plist, decoder, out, chan, mon, stale, pc, phase,
                   cont, quit, msgClosed, fault, calls, trans, cur, pz, scen>>
    /\ UNCHANGED pvars

\* A client sends on pt.msgChan after loop() closed it.
ClientSendClosed ==
    /\ fault = "none"
    /\ msgClosed
    /\ fault' = "send on closed channel"
    /\ UNCHANGED <<state, pos, plist, decoder, out, chan, mon, stale, pc, phase,
                   cont, quit, msgClosed, closer, calls, trans, cur, pz, scen>>
    /\ UNCHANGED pvars

Next ==
    \/ \E l \in Playlists : CmdPlist(l)
    \/ \E l \in Playlists, p \in PosArgs : CmdPlay(l, p)
    \/ CmdClose
    \/ CmdStop
    \/ CmdPause
    \/ CmdNext
    \/ CmdPrev
    \/ Handshake
    \/ Tick
    \/ RecvSignal
    \/ RecvClosed
    \/ MonWait
    \/ MonWaitFails
    \/ MonSleep
    \/ Drain
    \/ CloseReturn
    \/ CloseSteal
    \/ ClientSendClosed

Spec == Init /\ [][Next]_vars

\* The lists whose every file has a registered decoder and opens.
GoodPlaylists ==
    {l \in Playlists :
        \A i \in DOMAIN l : HasDecoderFactory(TrackFile(l[i])) /\ OpenSucceeds(TrackFile(l[i]))}

\* The engine driven by Play (of a non-empty list), SetPlaylist, Pause, Next,
\* Prev and Stop only, on lists of GoodPlaylists.
GoodNext ==
    \/ \E l \in GoodPlaylists : CmdPlist(l)
    \/ \E l \in GoodPlaylists \ {<< >>}, p \in PosArgs : CmdPlay(l, p)
    \/ CmdStop
    \/ CmdPause
    \/ CmdNext
    \/ CmdPrev
    \/ Handshake
    \/ Tick
    \/ RecvSignal
    \/ RecvClosed
    \/ MonWait
    \/ MonWaitFails
    \/ MonSleep
    \/ Drain

GoodSpec == Init /\ [][GoodNext]_vars

\* ---------------------------------------------------- Player facade actions
\* Number of commands issued so far: tickets are given in enqueue order.
Issued ==
    LET T == {call[c].ticket : c \in Clients}
    IN  CHOOSE m \in T : \A t \in T : t <= m

\* Command(), lines 64-66: client c enqueues a command with its own response
\* channel and goes on to wait for the response.
ClientSend(c, cmd) ==
    /\ pfault = "none"
    /\ call[c].pc = "idle"
    /\ Issued < MaxCmds
    /\ Len(playingChan) < ChanCap
    /\ playingChan' =
           Append(playingChan,
                  [code |-> cmd.code, arg |-> cmd.arg, client |-> c, ticket |-> Issued + 1])
    /\ call' = [call EXCEPT ![c] = [pc |-> "waiting", ticket |-> Issued + 1]]
    /\ responseChan' = [responseChan EXCEPT ![c] = << >>]
    /\ UNCHANGED <<playlists, ret, last, pfault>>
    /\ UNCHANGED tvars

\* The response playingProcess builds for cmd, the registry it leaves, and the
\* panic of cmd.arguments[0] when the command came without argument.
Serve(cmd) ==
    IF cmd.code = "CMD_PLAYLISTS_LIST"
    THEN [reg |-> playlists, err |-> NoErr, arguments |-> cmdPlaylistsList(playlists),
          panic |-> FALSE]
    ELSE IF cmd.code \in {"CMD_PLAYLISTS_ADD", "CMD_PLAYLISTS_DELETE"} /\ cmd.arg = NoArg
    THEN [reg |-> playlists, err |-> NoErr, arguments |-> NilArguments, panic |-> TRUE]
    ELSE IF cmd.code = "CMD_PLAYLISTS_ADD"
    THEN [reg |-> cmdPlaylistsAdd(playlists, cmd.arg).reg, err |-> NoErr,
          arguments |-> NilArguments, panic |-> FALSE]
    ELSE IF cmd.code = "CMD_PLAYLISTS_DELETE"
    THEN [reg |-> cmdPlaylistsDelete(playlists, cmd.arg).reg,
          err |-> cmdPlaylistsDelete(playlists, cmd.arg).err,
          arguments |-> NilArguments, panic |-> FALSE]
    ELSE [reg |-> playlists, err |-> "Unsupported command", arguments |-> NilArguments,
          panic |-> FALSE]

\* playingProcess, lines 76-93: one iteration of the loop.
PlayingProcess ==
    /\ pfault = "none"
    /\ playingChan # << >>
    /\ LET cmd == Head(playingChan)
           r == Serve(cmd)
       IN  /\ playingChan' = Tail(playingChan)
           /\ last' = [ticket |-> cmd.ticket, code |-> cmd.code, arg |-> cmd.arg,
                       client |-> cmd.client, before |-> playlists, err |-> r.err]
           /\ IF r.panic
              THEN /\ pfault' = "index out of range"
                   /\ UNCHANGED <<playlists, responseChan>>
              ELSE /\ playlists' = r.reg
                   /\ responseChan' =
                          [responseChan EXCEPT ![cmd.client] =
                              Append(@, [err |-> r.err, arguments |-> r.arguments,
                                         ticket |-> cmd.ticket])]
                   /\ UNCHANGED pfault
    /\ UNCHANGED <<call, ret>>
    /\ UNCHANGED tvars

\* Command(), lines 67-69: client c receives the response and returns it.
ClientReturn(c) ==
    /\ pfault = "none"
    /\ call[c].pc = "waiting"
    /\ responseChan[c] # << >>
    /\ ret' = [ret EXCEPT ![c] = Head(responseChan[c])]
    /\ responseChan' = [responseChan EXCEPT ![c] = Tail(@)]
    /\ call' = [call EXCEPT ![c].pc = "idle"]
    /\ UNCHANGED <<playlists, playingChan, last, pfault>>
    /\ UNCHANGED tvars

PlayerInit == ThreadInit /\ \E reg \in Registries : New(reg)

PlayerNext ==
    \/ \E c \in Clients, cmd \in Commands : ClientSend(c, cmd)
    \/ PlayingProcess
    \/ \E c \in Clients : ClientReturn(c)

PlayerSpec == PlayerInit /\ [][PlayerNext]_vars

\* ------------------------------------------------------------------ claims
\* Number of entries op in the log of the handler.
Count(op) == Cardinality({i \in DOMAIN calls : calls[i].op = op})

\* Number of entries op on file f in the log of the handler.
CountOn(op, f) ==
    Cardinality({i \in DOMAIN calls : calls[i].op = op /\ calls[i].file = f})

\* The log entry of a call without argument.
Entry(op) == [op |-> op, file |-> "", at |-> 0]

\* The handler of command c is no longer running: it ended or it panicked.
Handled(c) == cur.cmd = c /\ phase = "cmd" /\ pc # "hs"

\* C1: a Stop received in Playing or Paused is processed to its end and leaves
\* state Stopped, Decoder and Output closed, pos = -1, the list nil and no
\* checker running.
C1_StopCleansUp ==
    (Handled("Stop") /\ cur.st0 # "Stopped") =>
        /\ pc = "tick"
        /\ state = "Stopped"
        /\ ~decoder.nil /\ decoder.closed
        /\ ~out.open
        /\ pos = -1
        /\ plist.nil
        /\ mon = "none" /\ stale = 0

ExplicitCommit == trans.active /\ trans.committed /\ ~trans.smooth

\* C3 as claimed: Play, Next and Prev commit the requested pos modulo the
\* length of the list.
C3_WrapsModulo == ExplicitCommit => pos = trans.req % trans.n

\* C3 as amended: they commit the last index for a negative pos, index 0 for
\* a pos >= n, and pos itself otherwise.
C3_WrapsToEnds ==
    ExplicitCommit =>
        /\ trans.n > 0
        /\ trans.req < 0 => pos = trans.n - 1
        /\ trans.req >= trans.n => pos = 0
        /\ (trans.req >= 0 /\ trans.req < trans.n) => pos = trans.req

C3_Witness ==
    /\ ExplicitCommit
    /\ cur.cmd = "Play"
    /\ trans.req < -1 /\ trans.n = 3 /\ pos = 2

C5_ResetIffExplicit ==
    /\ ExplicitCommit =>
           /\ cur.cmd \in {"Play", "Next", "Prev"}
           /\ Count("Output.Reset") = 1
           /\ \A i, j \in DOMAIN calls :
                  (calls[i].op = "Output.Reset" /\ calls[j].op = "commit") => i < j
    /\ (trans.active /\ trans.smooth) =>
           /\ phase = "tick"
           /\ Count("Output.Reset") = 0

C5_Witness ==
    /\ ExplicitCommit
    /\ cur.cmd = "Next"
    /\ trans.st0 = "Playing"
    /\ Count("Output.Reset") = 1

\* The committed transition went from a Part track to a Part track of the same
\* file that starts where the outgoing one ends.
ContiguousParts ==
    /\ trans.active /\ trans.committed
    /\ trans.from # NoTrack /\ trans.to # NoTrack
    /\ TrackPart(trans.from) /\ TrackPart(trans.to)
    /\ TrackFile(trans.from) = TrackFile(trans.to)
    /\ TrackEnd(trans.from) = TrackStart(trans.to)

\* C6 as claimed: such a transition calls neither Decoder.Seek nor
\* Output.Reset, whatever triggered it.
C6_ContiguousNoSeekNoReset ==
    ContiguousParts => (Count("Decoder.Seek") = 0 /\ Count("Output.Reset") = 0)

\* C6 as amended: such a transition never calls Decoder.Seek; it calls
\* Output.Reset not at all as a natural advance and once as a command.
C6_ContiguousNoSeek ==
    ContiguousParts =>
        /\ Count("Decoder.Seek") = 0
        /\ Count("Decoder.Open") = 0
        /\ Count("Output.Reset") = IF trans.smooth THEN 0 ELSE 1

C6_Witness ==
    /\ ContiguousParts
    /\ trans.smooth
    /\ trans.from = "P" /\ trans.to = "B"
    /\ decoder.time = TrackStart("B")

\* C7: a transition from a current track (Playing or Paused) to a track of
\* another file closes the old Decoder exactly once and opens a new Decoder on
\* the new file.
C7_OtherFileReopens ==
    ( /\ trans.active /\ pc # "hs"
      /\ trans.st0 \in {"Playing", "Paused"}
      /\ trans.from # NoTrack /\ trans.to # NoTrack
      /\ TrackFile(trans.from) # TrackFile(trans.to) ) =>
        /\ trans.committed
        /\ CountOn("Decoder.Close", TrackFile(trans.from)) = 1
        /\ Count("Decoder.Close") = 1
        /\ CountOn("Decoder.Open", TrackFile(trans.to)) = 1
        /\ ~decoder.nil /\ ~decoder.closed
        /\ decoder.file = TrackFile(trans.to)

\* C8: a Close received in any state leaves what Stop leaves (checker stopped,
\* Output and Decoder closed, list nil, pos = -1, state Stopped), and then
\* loop() ends: the command channel is closed and nothing runs any more.
C8_CloseCleansUpAndEnds ==
    /\ Handled("Close") =>
           /\ pc = "tick"
           /\ quit
           /\ state = "Stopped"
           /\ pos = -1
           /\ ~out.open
           /\ mon = "none" /\ stale = 0
           /\ cur.st0 # "Stopped" => (plist.nil /\ ~decoder.nil /\ decoder.closed)
    /\ (cur.cmd = "Close" /\ phase = "tick") =>
           /\ pc = "done"
           /\ msgClosed
           /\ calls = << >>

\* C9: Close() returns only when loop() has ended and closed the command
\* channel, whatever other clients send meanwhile.
C9_CloseReturnsAfterLoopEnd ==
    closer = "returned" => (pc = "done" /\ msgClosed)

\* C10: Play(<<A, B, C>>, 0) from Stopped, then natural advances only: the
\* Play opens a decoder on a.mp3 and seeks nothing; A -> B opens no decoder,
\* seeks nothing, resets nothing; B -> C closes the a.mp3 decoder, opens one on
\* c.mp3 and resets nothing; in the whole run Seek is called 0 times and
\* Output.Reset once.
C10_GaplessScenario ==
    scen.mode = "on" =>
        /\ fault = "none"
        /\ plist = ListOf(ListABC)
        /\ scen.seeks = 0
        /\ scen.resets = 1
        /\ Count("Decoder.Seek") = 0
        /\ Handled("Play") =>
               /\ calls[1] = [op |-> "Decoder.Open", file |-> "a.mp3", at |-> 0]
               /\ Count("Decoder.Open") = 1
               /\ Count("Decoder.Close") = 0
               /\ Count("Output.Reset") = 1
               /\ pos = 0 /\ decoder.file = "a.mp3" /\ decoder.time = 0
        /\ (trans.active /\ trans.smooth) =>
               \/ trans.from = "A" /\ trans.to = "B"
               \/ trans.from = "B" /\ trans.to = "C"
               \/ trans.from = "C" /\ trans.to = "A"
        /\ (trans.committed /\ trans.from = "A" /\ trans.to = "B") =>
               /\ Count("Decoder.Open") = 0
               /\ Count("Decoder.Close") = 0
               /\ Count("Output.Reset") = 0
               /\ pos = 1 /\ decoder.file = "a.mp3"
        /\ (trans.committed /\ trans.from = "B" /\ trans.to = "C") =>
               /\ CountOn("Decoder.Close", "a.mp3") = 1
               /\ Count("Decoder.Close") = 1
               /\ CountOn("Decoder.Open", "c.mp3") = 1
               /\ Count("Decoder.Open") = 1
               /\ Count("Output.Reset") = 0
               /\ pos = 2 /\ decoder.file = "c.mp3" /\ ~decoder.closed

C10_Witness ==
    /\ scen.mode = "on"
    /\ trans.committed /\ trans.smooth
    /\ trans.from = "B" /\ trans.to = "C"
    /\ scen.resets = 1 /\ scen.seeks = 0

\* loop() can go on: it is about to run its decode step, or it is blocked in
\* stopBufAvailableChecker while the checker waits in its select.
LoopCanRun ==
    /\ fault = "none"
    /\ \/ pc = "tick"
       \/ pc = "hs" /\ mon = "select"

\* The engine with the scheduling the Go runtime gives: a goroutine that can
\* run does run.  Tick and Handshake are the only steps of loop() where
\* LoopCanRun holds and each of them ends it, so weak fairness of the two is
\* that LoopCanRun is false again and again.  The loop takes a signal that is
\* offered, output.Wait returns (with the free space there is, unless it
\* fails), the checker's sleep ends, the device keeps playing, and Close()
\* returns once the channel is closed.
FairSpec ==
    /\ Spec
    /\ []<>(~LoopCanRun)
    /\ WF_vars(RecvSignal)
    /\ WF_vars(RecvClosed)
    /\ WF_vars(MonWait)
    /\ WF_vars(MonSleep)
    /\ WF_vars(Drain)
    /\ WF_vars(CloseReturn)

\* The decode step just run wrote audio to the Output.
Wrote == phase = "tick" /\ Count("Output.Write") > 0

\* The loop was woken by the checker in Playing and has not decoded yet.
WokenPlaying ==
    state = "Playing" /\ pc = "tick" /\ phase = "cmd" /\ cur.cmd = "" /\ fault = "none"

\* C11: in Playing the engine eventually writes audio or leaves Playing, for
\* every non-empty list.  Stated for the engine left alone: a wake-up in
\* Playing is followed by a write or by the end of Playing, unless a command
\* arrives or the process dies first.
C11_NoSilentStall ==
    WokenPlaying ~>
        \/ Wrote
        \/ state # "Playing"
        \/ fault # "none"
        \/ (phase = "cmd" /\ cur.cmd # "")

\* C12: a transition whose target track has no registered decoder factory, or
\* whose Decoder.Open fails, closes the old decoder at most once, leaves the
\* engine Stopped or on another track, and does not abort the loop.
C12_FailedOpenHandled ==
    ( /\ trans.active /\ pc # "hs"
      /\ trans.to # NoTrack
      /\ \/ ~HasDecoderFactory(TrackFile(trans.to))
         \/ ~OpenSucceeds(TrackFile(trans.to)) ) =>
        /\ fault = "none"
        /\ pc # "panic"
        /\ Count("Decoder.Close") <= 1
        /\ \/ state = "Stopped"
           \/ trans.committed /\ CurTrack(World) # trans.to

\* playingProcess has handled a command with code code and has answered it.
Served(code) == last.code = code /\ last.arg # NoArg /\ pfault = "none"

\* The response to the command handled last, where its caller finds it.
LastResponse ==
    IF responseChan[last.client] # << >> THEN Head(responseChan[last.client])
    ELSE ret[last.client]

\* C13: an add of a name that is already in the registry returns a non-nil
\* error to its caller and leaves the registry as it was; playlist names are
\* pairwise distinct at all times.
C13_AddExistingFails ==
    /\ (Served("CMD_PLAYLISTS_ADD") /\ last.arg \in NamesOf(last.before)) =>
           /\ playlists = last.before
           /\ LastResponse.ticket = last.ticket => LastResponse.err # NoErr
    /\ \A i, j \in DOMAIN playlists : playlists[i].Name = playlists[j].Name => i = j

\* C14: a delete of the system playlist returns a non-nil error to its caller
\* and leaves the registry as it was; the system playlist is in the registry
\* at all times.
C14_SystemPlaylistKept ==
    /\ (Served("CMD_PLAYLISTS_DELETE") /\ last.arg = SystemName) =>
           /\ playlists = last.before
           /\ LastResponse.ticket = last.ticket
           /\ LastResponse.err # NoErr
    /\ \E i \in DOMAIN playlists : playlists[i] = SystemPlaylist

\* A client has returned from a delete of the system playlist with an error.
C14_Witness ==
    /\ Served("CMD_PLAYLISTS_DELETE") /\ last.arg = SystemName
    /\ call[last.client].pc = "idle"
    /\ ret[last.client].ticket = last.ticket
    /\ ret[last.client].err # NoErr
    /\ Len(last.before) > 1

\* C15: a delete of a name that no playlist of the registry has returns nil
\* and leaves the registry as it was, whatever the registry holds.
C15_DeleteMissingSucceeds ==
    (Served("CMD_PLAYLISTS_DELETE") /\ last.arg \notin NamesOf(last.before)) =>
        /\ playlists = last.before
        /\ LastResponse.ticket = last.ticket
        /\ LastResponse.err = NoErr

\* C16: a delete of the name of a playlist that is not the system playlist
\* returns nil and removes that playlist and no other, the others keeping
\* their order, wherever the system playlist is in the registry.
C16_DeleteRemovesExactlyIt ==
    ( /\ Served("CMD_PLAYLISTS_DELETE")
      /\ last.arg # SystemName
      /\ last.arg \in NamesOf(last.before) ) =>
        /\ LastResponse.ticket = last.ticket
        /\ LastResponse.err = NoErr
        /\ \E i \in DOMAIN last.before :
              /\ last.before[i].Name = last.arg
              /\ playlists = Remove(last.before, i)

\* C17: playingProcess handles the commands one at a time in the order they
\* were enqueued; a call gets one response, the one to its own command; and a
\* call that waits is answered: playingProcess is still there to answer it.
C17_EachCallAnswered ==
    /\ \A i \in DOMAIN playingChan : playingChan[i].ticket = last.ticket + i
    /\ \A c \in Clients :
          /\ Len(responseChan[c]) <= 1
          /\ responseChan[c] # << >> =>
                 /\ call[c].pc = "waiting"
                 /\ Head(responseChan[c]).ticket = call[c].ticket
          /\ (call[c].pc = "idle" /\ call[c].ticket > 0) => ret[c].ticket = call[c].ticket
          /\ call[c].pc = "waiting" => pfault = "none"

\* loop() is blocked in its select, waiting for a command or a signal.
Waiting == pc = "select" /\ fault = "none"

DecoderIsOpen == ~decoder.nil /\ ~decoder.closed

\* C18: whenever the loop waits for its next event, the Decoder and the Output
\* are open exactly when state is not Stopped, and a checker is running
\* exactly when state is Playing.
C18_HandlesMatchState ==
    Waiting =>
        /\ DecoderIsOpen <=> state # "Stopped"
        /\ out.open <=> state # "Stopped"
        /\ mon # "none" <=> state = "Playing"

\* The loop waits in Stopped after a Stop received in Playing.
C18_Witness ==
    /\ Waiting
    /\ cur.cmd = "Stop" /\ cur.st0 = "Playing"
    /\ state = "Stopped"
    /\ ~decoder.nil /\ decoder.closed /\ ~out.open /\ mon = "none"

\* C19: once a command or a decode step is through, whenever state is not
\* Stopped the engine holds a list and pos is an index of it, and pos = -1
\* occurs in Stopped only; no lookup of a track in a non-empty list uses an
\* index out of range.
C19_PosInRange ==
    /\ (pc \in {"select", "tick"} /\ state # "Stopped") =>
           (~plist.nil /\ InRange(plist, pos))
    /\ (pc \in {"select", "tick"} /\ pos = -1) => state = "Stopped"
    /\ (~plist.nil /\ plist.tracks # << >>) => fault # "index out of range"

\* Number of bufAvailableChecker goroutines alive.
Checkers == (IF mon # "none" THEN 1 ELSE 0) + stale

\* C20: at every moment at most one bufAvailableChecker is alive: a new one is
\* started only after the previous one took the stop message and returned.
C20_OneChecker == Checkers <= 1

\* A handler started from Playing has stopped the checker and started a new
\* one, which is running.
C20_Witness ==
    /\ trans.committed /\ trans.st0 = "Playing"
    /\ Count("Monitor.Stop") = 1 /\ Count("Monitor.Start") = 1
    /\ mon # "none"
    /\ Checkers = 1

\* The loop has just taken the case <-pt.bufAvailable of its select.
Woken == pc = "tick" /\ phase = "cmd" /\ cur.cmd = "" /\ fault = "none"

\* C21: between the stop of a checker and the start of the next one the
\* availability branch of the select does not fire: the loop is woken by it
\* in state Playing only, never while Paused or Stopped.
C21_NoWakeWithoutChecker == Woken => (state = "Playing" /\ chan = "open")

\* C22: a stop of the checker that the engine has begun comes to its end: the
\* engine does not stay blocked in stopBufAvailableChecker, whatever
\* output.Wait returns to the checker.
C22_HandshakeCompletes == (pc = "hs" /\ fault = "none") ~> (pc # "hs")

\* The calls that close, pause, reset or reconfigure the Output or close the
\* Decoder.
Releasing ==
    {"Output.Close", "Output.Pause", "Output.Reset", "Output.SetSampleRate",
     "Output.SetChannels", "Decoder.Close"}

\* Number of checkers alive when the i-th call of the log was made: the one of
\* state Playing at the start of the handler, less those stopped, plus those
\* started by the calls before.
CheckersAt(i) ==
    LET alive0 == IF phase = "tick" \/ cur.st0 = "Playing" THEN 1 ELSE 0
        n(op) == Cardinality({j \in 1 .. (i - 1) : calls[j].op = op})
    IN  alive0 + n("Monitor.Start") - n("Monitor.Stop")

\* The handler is a Pause received in Paused.
Resuming == phase = "cmd" /\ cur.cmd = "Pause" /\ cur.st0 = "Paused"

\* C23: in every Stop, Close, Pause and track transition no checker is alive
\* when the engine closes, pauses, resets or reconfigures the Output or closes
\* the Decoder, and none is alive while the Output is closed.
C23_CheckerGoneBeforeRelease ==
    /\ \A i \in DOMAIN calls : calls[i].op \in Releasing => CheckersAt(i) = 0
    /\ ~out.open => (mon = "none" /\ stale = 0)

\* C23 as the code has it: the same, except for the Pause received in Paused,
\* which starts the new checker and then calls Output.Pause.
C23_CheckerGoneExceptResume ==
    /\ \A i \in DOMAIN calls :
          calls[i].op \in Releasing =>
              IF Resuming THEN calls = <<Entry("Monitor.Start"), Entry("Output.Pause")>>
              ELSE CheckersAt(i) = 0
    /\ ~out.open => (mon = "none" /\ stale = 0)

\* A Pause received in Paused has started the checker and called Output.Pause.
C23_Witness ==
    /\ Resuming /\ fault = "none"
    /\ calls = <<Entry("Monitor.Start"), Entry("Output.Pause")>>
    /\ mon # "none" /\ state = "Playing"

\* C24: every command sent to the loop is received and processed: whatever the
\* loop is doing (a command handler, a stop of the checker, a decode step), it
\* finishes it and is back at its select to receive the next command, unless
\* it has ended after a Close or the process has died.
C24_CommandsProcessed ==
    (pc # "select" /\ fault = "none") ~> (pc \in {"select", "done"} \/ fault # "none")

\* The decode step has called play(pos+1, true), which is about to stop the
\* checker: pos and the decoder are still those of the track being left.
Advancing == pc = "hs" /\ phase = "tick" /\ trans.active /\ trans.smooth

\* C25: the decode step advances to pos+1 only when the decoder is at the end
\* of its stream or, for a Part track, at or past the track's End; a step that
\* finds no free space in the Output does not leave the track.
C25_AdvanceOnlyAtEnd ==
    Advancing =>
        \/ decoder.time >= FileLen(decoder.file)
        \/ TrackPart(CurTrack(World)) /\ decoder.time >= TrackEnd(CurTrack(World))

\* C26: when the handler of an explicit Play, Next or Prev has committed track
\* T, the decoder is open on T's file and stands at T's beginning: T.Start
\* for a Part track, the start of the file otherwise.
C26_DecoderAtTrackStart ==
    (ExplicitCommit /\ fault = "none") =>
        /\ DecoderIsOpen
        /\ decoder.file = TrackFile(trans.to)
        /\ decoder.time = IF TrackPart(trans.to) THEN TrackStart(trans.to) ELSE 0

\* C27: with every extension registered and every Open succeeding, no sequence
\* of Play (of a non-empty list), SetPlaylist, Pause, Next, Prev and Stop,
\* interleaved with availability signals, makes the loop panic.
C27_NoAbort == fault = "none"

====
